---------------------------- MODULE Spec2Model ----------------------------
(***************************************************************************)
(* A model of mustache.js: the template parser (parseTemplate,             *)
(* squashTokens, nestTokens), the Writer (template cache, parse, render,   *)
(* renderTokens and the per-token renderers) and the Scanner and Context   *)
(* they rest on.                                                           *)
(*                                                                         *)
(* A JavaScript string is a sequence of one-character strings; offsets     *)
(* into it are 0-based, as in the source.  A JavaScript value is a record  *)
(* tagged by its type in field t.                                          *)
(***************************************************************************)
EXTENDS Integers, Sequences, FiniteSets, TLC

VARIABLES templateCache, call, result

vars == <<templateCache, call, result>>

-----------------------------------------------------------------------------
(* Strings *)

Max(S) == CHOOSE x \in S : \A y \in S : y <= x

Min(S) == CHOOSE x \in S : \A y \in S : x <= y

\* String.prototype.slice(from, to) for 0 <= from; to is clamped to the length.
Slice(s, from, to) ==
    LET e == IF to > Len(s) THEN Len(s) ELSE to
    IN  IF from >= e THEN <<>> ELSE SubSeq(s, from + 1, e)

\* charAt(i), 0-based.
CharAt(s, i) == s[i + 1]

RECURSIVE Join(_, _)
\* Array.prototype.join(sep) on an array of strings.
Join(arr, sep) ==
    IF Len(arr) = 0 THEN <<>>
    ELSE IF Len(arr) = 1 THEN arr[1]
    ELSE arr[1] \o sep \o Join(Tail(arr), sep)

RECURSIVE Concat(_)
Concat(ss) == IF Len(ss) = 0 THEN <<>> ELSE ss[1] \o Concat(Tail(ss))

\* The characters the regular expression class \s matches (of the model's alphabet).
WhitespaceChars == {" ", "\t", "\n", "\r"}

\* isWhitespace: no character of the string matches /\S/.
isWhitespace(string) == \A i \in 1..Len(string) : string[i] \in WhitespaceChars

\* The characters of tagRe = /#|\^|\/|>|\{|&|=|!/.
tagRe == {"#", "^", "/", ">", "{", "&", "=", "!"}

-----------------------------------------------------------------------------
(* Regular expressions of the shapes the parser compiles: an optional      *)
(* leading \s*, an escaped literal, an optional trailing \s*.              *)

Re(pre, lit, post) == [pre |-> pre, lit |-> lit, post |-> post]

whiteRe  == Re(TRUE, <<>>, FALSE)
equalsRe == Re(TRUE, <<"=">>, FALSE)
curlyRe  == Re(TRUE, <<"}">>, FALSE)

\* The length of the run of whitespace that starts at offset i.
WsRun(s, i) ==
    Max({n \in 0..(Len(s) - i) : \A j \in 1..n : s[i + j] \in WhitespaceChars})

LitAt(s, i, lit) ==
    /\ i + Len(lit) <= Len(s)
    /\ \A j \in 1..Len(lit) : s[i + j] = lit[j]

\* The length of the match of re that starts exactly at offset i, or -1.
\* \s* is greedy and backtracks; the trailing \s* takes all it can.
MatchLen(s, i, re) ==
    LET \* the match whose literal ends at offset e
        Upto(e) == (e - i) + (IF re.post THEN WsRun(s, e) ELSE 0)
        \* K: the lengths of leading whitespace after which the literal stands
        Among(K) == IF i > Len(s) \/ K = {} THEN -1
                    ELSE Upto(i + Max(K) + Len(re.lit))
    IN  Among({k \in 0..(IF re.pre THEN WsRun(s, i) ELSE 0) : LitAt(s, i + k, re.lit)})

\* String.prototype.search: the offset >= from of the leftmost match, or -1.
Search(s, from, re) ==
    LET Leftmost(M) == IF M = {} THEN -1 ELSE Min(M)
    IN  Leftmost({i \in from..Len(s) : MatchLen(s, i, re) >= 0})

-----------------------------------------------------------------------------
(* Scanner: a cursor pos over the template.  Each operator returns the     *)
(* cursor after the call; the text consumed is Slice(s, pos, new pos).     *)

eos(s, pos) == pos >= Len(s)

\* scan(re): past the match if re matches exactly at the cursor, else unmoved.
scan(s, pos, re) ==
    LET Past(n) == IF n < 0 THEN pos ELSE pos + n
    IN  Past(MatchLen(s, pos, re))

\* scanUntil(re): up to the first match at or after the cursor, else to the end.
scanUntil(s, pos, re) ==
    LET Before(i) == IF i < 0 THEN Len(s) ELSE i
    IN  Before(Search(s, pos, re))

-----------------------------------------------------------------------------
(* Tokens.  A token is the source's array [type, value, start, end, ...];  *)
(* the elements a kind of token does not have hold a placeholder           *)
(* (closeStart -1, tagIndex -1).                                           *)

Undef == -1

Token(type, value, start, end) ==
    [type |-> type, value |-> value, start |-> start, end |-> end,
     children |-> <<>>, closeStart |-> Undef,
     indentation |-> <<>>, tagIndex |-> Undef, lineHasNonSpace |-> FALSE]

PartialToken(value, start, end, indentation, tagIndex, lineHasNonSpace) ==
    [Token(">", value, start, end) EXCEPT
        !.indentation = indentation, !.tagIndex = tagIndex,
        !.lineHasNonSpace = lineHasNonSpace]

\* What `delete tokens[i]` leaves in the array.
Hole == Token("hole", <<>>, Undef, Undef)

NoError == [kind |-> "none", name |-> <<>>, at |-> Undef]

Error(kind, name, at) == [kind |-> kind, name |-> name, at |-> at]

\* mustache.tags
DefaultTags == << <<"{", "{">>, <<"}", "}">> >>


-----------------------------------------------------------------------------
(* The values handed to parseTemplate as `tags`: undefined, a string or an *)
(* array of strings.                                                       *)

UndefinedV == [t |-> "undefined", v |-> <<>>]
StringV(s) == [t |-> "string", v |-> s]
TagsV(arr) == [t |-> "array", v |-> arr]

RECURSIVE SplitSpace(_)
\* String.prototype.split(/\s+/): the pieces between the runs of whitespace.
SplitSpace(s) ==
    LET At(i) == <<Slice(s, 0, i)>> \o SplitSpace(Slice(s, i + WsRun(s, i), Len(s)))
        Among(W) == IF W = {} THEN <<s>> ELSE At(Min(W))
    IN  Among({i \in 0..(Len(s) - 1) : s[i + 1] \in WhitespaceChars})

\* split(spaceRe, 2): at most the first two pieces.
SplitLimit2(s) ==
    LET Limit(p) == IF Len(p) > 2 THEN SubSeq(p, 1, 2) ELSE p
    IN  Limit(SplitSpace(s))

\* compileTags: the three regular expressions of a delimiter pair, or the
\* 'Invalid tags' error.
compileTags(tagsToCompile) ==
    LET Compiled(arr) ==
            IF tagsToCompile.t \notin {"string", "array"} \/ Len(arr) # 2
            THEN [err |-> Error("Invalid tags", <<>>, Undef),
                  openingTagRe |-> whiteRe, closingTagRe |-> whiteRe,
                  closingCurlyRe |-> whiteRe]
            ELSE [err |-> NoError,
                  openingTagRe |-> Re(FALSE, arr[1], TRUE),
                  closingTagRe |-> Re(TRUE, arr[2], FALSE),
                  closingCurlyRe |-> Re(TRUE, <<"}">> \o arr[2], FALSE)]
    IN  Compiled(IF tagsToCompile.t = "string" THEN SplitLimit2(tagsToCompile.v)
                 ELSE tagsToCompile.v)

\* `tags || mustache.tags`: undefined and the empty string are falsy.
TagsOrDefault(tags) ==
    IF tags.t = "undefined" \/ (tags.t = "string" /\ tags.v = <<>>)
    THEN TagsV(DefaultTags) ELSE tags

-----------------------------------------------------------------------------
(* parseTemplate.  ps is the state of one call: the scanner's cursor, the  *)
(* local variables of the function and the compiled delimiters.            *)

\* stripSpace with a slip: the whitespace goes whenever the line holds a tag.
stripSpaceAnyTag(ps) ==
    [ps EXCEPT
        !.tokens = IF ps.hasTag
                   THEN [i \in 1..Len(ps.tokens) |->
                            IF \E k \in 1..Len(ps.spaces) : ps.spaces[k] = i - 1
                            THEN Hole ELSE ps.tokens[i]]
                   ELSE ps.tokens,
        !.spaces = <<>>,
        !.hasTag = FALSE,
        !.nonSpace = FALSE]

\* stripSpace
stripSpace(ps) ==
    [ps EXCEPT
        !.tokens = IF ps.hasTag /\ ~ps.nonSpace
                   THEN [i \in 1..Len(ps.tokens) |->
                            IF \E k \in 1..Len(ps.spaces) : ps.spaces[k] = i - 1
                            THEN Hole ELSE ps.tokens[i]]
                   ELSE ps.tokens,
        !.spaces = <<>>,
        !.hasTag = FALSE,
        !.nonSpace = FALSE]

\* One round of the loop over the characters of the text before a tag.
TextChar(ps, chr, start) ==
    LET ws == isWhitespace(<<chr>>)
        \* p1: the state once the character's token is pushed
        Pushed(p1) ==
            IF chr = "\n"
            THEN [stripSpace(p1) EXCEPT
                     !.indentation = <<>>, !.tagIndex = 0, !.lineHasNonSpace = FALSE]
            ELSE p1
    IN  Pushed([ps EXCEPT
                 !.spaces = IF ws THEN Append(ps.spaces, Len(ps.tokens)) ELSE ps.spaces,
                 !.indentation = ps.indentation \o (IF ws THEN <<chr>> ELSE <<" ">>),
                 !.nonSpace = IF ws THEN ps.nonSpace ELSE TRUE,
                 !.lineHasNonSpace = IF ws THEN ps.lineHasNonSpace ELSE TRUE,
                 !.tokens = Append(ps.tokens, Token("text", <<chr>>, start, start + 1))])

RECURSIVE TextLoop(_, _, _, _)
\* for (i = 0; i < valueLength; ++i) over value, whose first character is at start.
TextLoop(ps, value, i, start) ==
    IF i >= Len(value) THEN ps
    ELSE TextLoop(TextChar(ps, CharAt(value, i), start + i), value, i + 1, start)

\* AfterTag with a slip: a close tag pops the stack without comparing names.
AfterTagAnyName(ps, type, value, start) ==
    IF type \in {"#", "^"}
    THEN [ps EXCEPT !.sections = Append(ps.sections, ps.tokens[Len(ps.tokens)])]
    ELSE IF type = "/"
    THEN IF Len(ps.sections) = 0
         THEN [ps EXCEPT !.err = Error("Unopened section", value, start)]
         ELSE [ps EXCEPT !.sections = SubSeq(ps.sections, 1, Len(ps.sections) - 1)]
    ELSE IF type \in {"name", "{", "&"}
    THEN [ps EXCEPT !.nonSpace = TRUE]
    ELSE IF type = "="
    THEN LET Switched(c) ==
                 IF c.err # NoError THEN [ps EXCEPT !.err = c.err]
                 ELSE [ps EXCEPT !.openingTagRe = c.openingTagRe,
                                 !.closingTagRe = c.closingTagRe,
                                 !.closingCurlyRe = c.closingCurlyRe]
         IN  Switched(compileTags(StringV(value)))
    ELSE ps

\* The section bookkeeping after a tag's token is pushed (lines 216-232).
AfterTag(ps, type, value, start) ==
    IF type \in {"#", "^"}
    THEN [ps EXCEPT !.sections = Append(ps.sections, ps.tokens[Len(ps.tokens)])]
    ELSE IF type = "/"
    THEN IF Len(ps.sections) = 0
         THEN [ps EXCEPT !.err = Error("Unopened section", value, start)]
         ELSE LET openSection == ps.sections[Len(ps.sections)]
                  popped == [ps EXCEPT
                               !.sections = SubSeq(ps.sections, 1, Len(ps.sections) - 1)]
              IN  IF openSection.value # value
                  THEN [popped EXCEPT
                           !.err = Error("Unclosed section", openSection.value, start)]
                  ELSE popped
    ELSE IF type \in {"name", "{", "&"}
    THEN [ps EXCEPT !.nonSpace = TRUE]
    ELSE IF type = "="
    THEN LET Switched(c) ==
                 IF c.err # NoError THEN [ps EXCEPT !.err = c.err]
                 ELSE [ps EXCEPT !.openingTagRe = c.openingTagRe,
                                 !.closingTagRe = c.closingTagRe,
                                 !.closingCurlyRe = c.closingCurlyRe]
         IN  Switched(compileTags(StringV(value)))
    ELSE ps

\* The tag that starts at the cursor (lines 180-232): start is its offset.
\* The cursor is p0 after the opening tag, p1 at the start of the tag's
\* value, p2 at its end, p3 before the closing tag and p4 after it.
TagStep(ps, start) ==
    LET s == ps.template
        Push(type, value, p4) ==
            AfterTag([ps EXCEPT
                         !.hasTag = TRUE, !.pos = p4,
                         !.tagIndex = ps.tagIndex + 1,
                         !.tokens = Append(ps.tokens,
                             IF type = ">"
                             THEN PartialToken(value, start, p4, ps.indentation,
                                               ps.tagIndex, ps.lineHasNonSpace)
                             ELSE Token(type, value, start, p4))],
                     type, value, start)
        \* if (!scanner.scan(closingTagRe)) throw
        Closed(type, value, p3, p4) ==
            IF p4 <= p3
            THEN [ps EXCEPT !.hasTag = TRUE, !.pos = p3,
                            !.err = Error("Unclosed tag", <<>>, p3)]
            ELSE Push(type, value, p4)
        Close(type, value, p3) ==
            Closed(type, value, p3, scan(s, p3, ps.closingTagRe))
        Value(type, p1, p2) ==
            Close(IF type = "{" THEN "&" ELSE type,
                  Slice(s, p1, p2),
                  IF type = "=" THEN scanUntil(s, scan(s, p2, equalsRe), ps.closingTagRe)
                  ELSE IF type = "{" THEN scanUntil(s, scan(s, p2, curlyRe), ps.closingTagRe)
                  ELSE p2)
        Typed(type, p1) ==
            Value(type, p1,
                  IF type = "=" THEN scanUntil(s, p1, equalsRe)
                  ELSE IF type = "{" THEN scanUntil(s, p1, ps.closingCurlyRe)
                  ELSE scanUntil(s, p1, ps.closingTagRe))
        \* type = scanner.scan(tagRe) || 'name'; scanner.scan(whiteRe)
        Sigil(p0, sigil) ==
            Typed(IF sigil THEN CharAt(s, p0) ELSE "name",
                  scan(s, IF sigil THEN p0 + 1 ELSE p0, whiteRe))
        \* if (!scanner.scan(openingTagRe)) break
        Opened(p0) ==
            IF p0 <= ps.pos THEN [ps EXCEPT !.brk = TRUE]
            ELSE Sigil(p0, (p0 < Len(s)) /\ (CharAt(s, p0) \in tagRe))
    IN  Opened(scan(s, ps.pos, ps.openingTagRe))

\* One round of `while (!scanner.eos())`: the text up to the next opening
\* tag, at p1, and the tag.
ParseStep(ps) ==
    LET Text(p1) ==
            TagStep(TextLoop([ps EXCEPT !.pos = p1],
                             Slice(ps.template, ps.pos, p1), 0, ps.pos),
                    p1)
    IN  Text(scanUntil(ps.template, ps.pos, ps.openingTagRe))

RECURSIVE ParseLoop(_)
ParseLoop(ps) ==
    IF eos(ps.template, ps.pos) \/ ps.brk \/ ps.err # NoError THEN ps
    ELSE ParseLoop(ParseStep(ps))

\* The state of a call when the loop is entered (lines 107-145).
ParseInit(template, tags) ==
    LET Start(c) ==
            [template |-> template, pos |-> 0,
             lineHasNonSpace |-> FALSE, sections |-> <<>>, tokens |-> <<>>,
             spaces |-> <<>>, hasTag |-> FALSE, nonSpace |-> FALSE,
             indentation |-> <<>>, tagIndex |-> 0,
             openingTagRe |-> c.openingTagRe, closingTagRe |-> c.closingTagRe,
             closingCurlyRe |-> c.closingCurlyRe,
             brk |-> FALSE, err |-> c.err]
    IN  Start(compileTags(TagsOrDefault(tags)))

\* parseTemplate up to the check for open sections (lines 107-241): the
\* state at the point where squashTokens and nestTokens take over.
ParseScan(template, tags) ==
    LET \* q: the state after the last stripSpace (line 235)
        Stripped(q) ==
            IF Len(q.sections) > 0
            THEN [q EXCEPT !.err = Error("Unclosed section",
                                         q.sections[Len(q.sections)].value, q.pos)]
            ELSE q
        \* p: the state after the loop
        Scanned(p) == IF p.err # NoError THEN p ELSE Stripped(stripSpace(p))
    IN  Scanned(ParseLoop(ParseInit(template, tags)))

-----------------------------------------------------------------------------
(* squashTokens and nestTokens *)

RECURSIVE SquashFrom(_, _, _)
\* The loop of squashTokens from index i (1-based): squashed is the array
\* built so far, whose last element is lastToken.
SquashFrom(tokens, i, squashed) ==
    IF i > Len(tokens) THEN squashed
    ELSE LET token == tokens[i]
             n == Len(squashed)
         IN  IF token.type = "hole" THEN SquashFrom(tokens, i + 1, squashed)
             ELSE IF token.type = "text" /\ n > 0 /\ squashed[n].type = "text"
             THEN SquashFrom(tokens, i + 1,
                     [squashed EXCEPT ![n].value = squashed[n].value \o token.value,
                                      ![n].end = token.end])
             ELSE SquashFrom(tokens, i + 1, Append(squashed, token))

squashTokens(tokens) == SquashFrom(tokens, 1, <<>>)

\* collector.push(token), where collector is the children of the innermost
\* open section of the stack, or nestedTokens when the stack is empty.
CollectorPush(st, token) ==
    IF Len(st.sections) = 0
    THEN [st EXCEPT !.nestedTokens = Append(st.nestedTokens, token)]
    ELSE [st EXCEPT !.sections[Len(st.sections)].children =
                        Append(st.sections[Len(st.sections)].children, token)]

\* A section leaves the stack: the token, which its parent's collector has
\* held since it was opened, is now complete.
PopSection(st) ==
    LET n == Len(st.sections)
    IN  CollectorPush([st EXCEPT !.sections = SubSeq(st.sections, 1, n - 1)],
                      st.sections[n])

RECURSIVE NestFrom(_, _, _)
\* The loop of nestTokens from index i (1-based).
NestFrom(tokens, i, st) ==
    IF i > Len(tokens)
    THEN IF Len(st.sections) = 0 THEN st ELSE NestFrom(tokens, i, PopSection(st))
    ELSE LET token == tokens[i]
         IN  IF token.type \in {"#", "^"}
             THEN NestFrom(tokens, i + 1,
                     [st EXCEPT !.sections = Append(st.sections, token)])
             ELSE IF token.type = "/"
             THEN IF Len(st.sections) = 0
                  THEN [st EXCEPT !.err = Error("TypeError", token.value, token.start)]
                  ELSE NestFrom(tokens, i + 1,
                          PopSection([st EXCEPT
                              !.sections[Len(st.sections)].closeStart = token.start]))
             ELSE NestFrom(tokens, i + 1, CollectorPush(st, token))

nestTokens(tokens) ==
    NestFrom(tokens, 1, [nestedTokens |-> <<>>, sections |-> <<>>, err |-> NoError])

\* parseTemplate: the token tree, or the error thrown.
parseTemplate(template, tags) ==
    LET Nested(n) == [err |-> n.err, tokens |-> n.nestedTokens]
        Scanned(p) == IF p.err # NoError THEN [err |-> p.err, tokens |-> <<>>]
                      ELSE Nested(nestTokens(squashTokens(p.tokens)))
    IN  IF template = <<>> THEN [err |-> NoError, tokens |-> <<>>]
        ELSE Scanned(ParseScan(template, tags))

-----------------------------------------------------------------------------
(* JavaScript values: [t |-> type, v |-> payload].  An object's payload is *)
(* a function from property names to values, an array's the sequence of    *)
(* its elements, a function's the name of its behaviour.                   *)

NullV      == [t |-> "null", v |-> <<>>]
NaNV       == [t |-> "NaN", v |-> <<>>]
BoolV(b)   == [t |-> "boolean", v |-> b]
NumV(n)    == [t |-> "number", v |-> n]
ObjV(f)    == [t |-> "object", v |-> f]
ArrV(a)    == [t |-> "array", v |-> a]
FunV(kind) == [t |-> "function", v |-> kind]

\* typeof
typeOf(value) ==
    CASE value.t \in {"null", "array", "object"} -> "object"
      [] value.t \in {"number", "NaN"} -> "number"
      [] OTHER -> value.t

isArray(object) == object.t = "array"

isFunction(object) == typeOf(object) = "function"

\* !value
Falsy(value) ==
    \/ value.t \in {"undefined", "null", "NaN"}
    \/ value.t = "boolean" /\ value.v = FALSE
    \/ value.t = "number" /\ value.v = 0
    \/ value.t = "string" /\ value.v = <<>>

\* value == null
IsNullish(value) == value.t \in {"undefined", "null"}

Digit(n) == <<"0", "1", "2", "3", "4", "5", "6", "7", "8", "9">>[n + 1]

RECURSIVE NatStringOf(_)
NatStringOf(n) ==
    IF n < 10 THEN <<Digit(n)>> ELSE NatStringOf(n \div 10) \o <<Digit(n % 10)>>

RECURSIVE StringOf(_)
\* String(value), the coercion of `buffer += value`.
StringOf(value) ==
    CASE value.t = "string" -> value.v
      [] value.t = "number" ->
            IF value.v < 0 THEN <<"-">> \o NatStringOf(-value.v)
            ELSE NatStringOf(value.v)
      [] value.t = "NaN" -> <<"N", "a", "N">>
      [] value.t = "boolean" ->
            IF value.v THEN <<"t", "r", "u", "e">> ELSE <<"f", "a", "l", "s", "e">>
      [] value.t = "null" -> <<"n", "u", "l", "l">>
      [] value.t = "undefined" -> <<"u", "n", "d", "e", "f", "i", "n", "e", "d">>
      [] value.t = "object" ->
            <<"[", "o", "b", "j", "e", "c", "t", " ", "O", "b", "j", "e", "c", "t", "]">>
      [] value.t = "array" ->
            Join([i \in 1..Len(value.v) |->
                    IF IsNullish(value.v[i]) THEN <<>> ELSE StringOf(value.v[i])],
                 <<",">>)
      [] OTHER -> <<"f", "u", "n", "c", "t", "i", "o", "n">>

\* entityMap (without its entry for the backquote, which is no character of
\* the model's alphabet).
entityMap(c) ==
    CASE c = "&" -> <<"&", "a", "m", "p", ";">>
      [] c = "<" -> <<"&", "l", "t", ";">>
      [] c = ">" -> <<"&", "g", "t", ";">>
      [] c = "\"" -> <<"&", "q", "u", "o", "t", ";">>
      [] c = "'" -> <<"&", "#", "3", "9", ";">>
      [] c = "/" -> <<"&", "#", "x", "2", "F", ";">>
      [] c = "=" -> <<"&", "#", "x", "3", "D", ";">>
      [] OTHER -> <<c>>

\* escapeHtml
escapeHtml(value) ==
    LET Escaped(s) == Concat([i \in 1..Len(s) |-> entityMap(s[i])])
    IN  Escaped(StringOf(value))

\* hasProperty: (propName in obj) for an object or an array of the model.
hasProperty(obj, propName) ==
    /\ ~IsNullish(obj)
    /\ typeOf(obj) = "object"
    /\ \/ obj.t = "object" /\ propName \in DOMAIN obj.v
       \/ obj.t = "array" /\ propName = <<"l", "e", "n", "g", "t", "h">>

\* primitiveHasOwnProperty: of the model's primitives only a string has an
\* own property (its length).
primitiveHasOwnProperty(primitive, propName) ==
    /\ ~IsNullish(primitive)
    /\ typeOf(primitive) # "object"
    /\ primitive.t = "string" /\ propName = <<"l", "e", "n", "g", "t", "h">>

\* obj[propName], where hasProperty or primitiveHasOwnProperty holds.
GetProperty(obj, propName) ==
    IF obj.t = "object" THEN obj.v[propName] ELSE NumV(Len(obj.v))

-----------------------------------------------------------------------------
(* Context: the chain of views of the scopes entered, the root first and   *)
(* the current node's view last.  A node is never changed once built; the  *)
(* per-node cache of resolved paths cannot be observed and is left out.    *)

\* new Context(view, undefined)
NewContext(view) == <<view>>

\* Context.prototype.push
push(context, view) == Append(context, view)

\* context.view
viewOf(context) == context[Len(context)]

RECURSIVE SplitOn(_, _)
\* String.prototype.split(sep) for a one-character separator.
SplitOn(s, sep) ==
    LET At(i) == <<Slice(s, 0, i)>> \o SplitOn(Slice(s, i + 1, Len(s)), sep)
        Among(W) == IF W = {} THEN <<s>> ELSE At(Min(W))
    IN  Among({i \in 0..(Len(s) - 1) : s[i + 1] = sep})

Resolves(view, segment) ==
    hasProperty(view, segment) \/ primitiveHasOwnProperty(view, segment)

RECURSIVE ResolveRest(_, _, _)
\* The segments names[k..] resolved strictly against value.
ResolveRest(value, names, k) ==
    IF k > Len(names) THEN value
    ELSE IF Resolves(value, names[k])
    THEN ResolveRest(GetProperty(value, names[k]), names, k + 1)
    ELSE UndefinedV

\* Context.prototype.lookup
lookup(context, name) ==
    LET \* S: the scopes in which the first segment resolves
        Found(names, S) ==
            IF S = {} THEN UndefinedV
            ELSE ResolveRest(GetProperty(context[Max(S)], names[1]), names, 2)
        Segments(names) ==
            Found(names, {i \in 1..Len(context) : Resolves(context[i], names[1])})
    IN  IF name = <<".">> THEN viewOf(context)
        ELSE Segments(SplitOn(name, "."))

-----------------------------------------------------------------------------
(* Writer: the template cache and parse.                                   *)

\* The cache object `new Writer()` builds, and `undefined` (caching disabled).
EmptyCache == [enabled |-> TRUE, entries |-> <<>>]
NoCache    == [enabled |-> FALSE, entries |-> <<>>]

\* template + ':' + (tags || mustache.tags).join(':')
cacheKey(template, tags) ==
    template \o <<":">> \o Join(TagsOrDefault(tags).v, <<":">>)

\* What a call observed: the text and tags handed to Writer.parse ("parse"),
\* the context a section's children are rendered against ("children"), the
\* text a callable section value received ("lambda").
Event(ev, tok, text, src, tags, ctx, level) ==
    [ev |-> ev, tok |-> tok, text |-> text, src |-> src, tags |-> tags,
     ctx |-> ctx, level |-> level, tokens |-> <<>>, err |-> NoError]

\* A call of Writer.parse and what it gave, p.
ParseEvent(tok, text, src, tags, ctx, level, p) ==
    [Event("parse", tok, text, src, tags, ctx, level)
        EXCEPT !.tokens = p.tokens, !.err = p.err]

\* Writer.prototype.parse: the tokens or the error, and the cache afterwards.
WriterParse(template, tags, cache) ==
    LET \* tokens == undefined: parseTemplate, and cache.set when it returns
        Miss(cacheKey_, p) ==
            IF p.err # NoError
            THEN [err |-> p.err, tokens |-> <<>>, cache |-> cache]
            ELSE [err |-> NoError, tokens |-> p.tokens,
                  cache |-> IF cache.enabled
                            THEN [cache EXCEPT
                                     !.entries = (cacheKey_ :> p.tokens) @@ cache.entries]
                            ELSE cache]
        Keyed(cacheKey_) ==
            IF cache.enabled /\ cacheKey_ \in DOMAIN cache.entries
            THEN [err |-> NoError, tokens |-> cache.entries[cacheKey_], cache |-> cache]
            ELSE Miss(cacheKey_, parseTemplate(template, tags))
    IN  IF TagsOrDefault(tags).t # "array"
        THEN [err |-> Error("TypeError", <<>>, Undef), tokens |-> <<>>, cache |-> cache]
        ELSE Keyed(cacheKey(template, tags))

-----------------------------------------------------------------------------
(* Writer: rendering.  Every operator returns a record R: the string       *)
(* produced, the error thrown (if any), the cache afterwards and the       *)
(* events observed so far.                                                 *)

R(out, err, cache, log) == [out |-> out, err |-> err, cache |-> cache, log |-> log]

\* The configuration of a render: undefined, a bare array of tags, or an
\* object with a tags and an escape attribute.
NoConfig == [t |-> "undefined", tags |-> UndefinedV, escape |-> "undefined"]
ArrayConfig(arr) == [t |-> "array", tags |-> TagsV(arr), escape |-> "undefined"]
ObjectConfig(tags, escape) == [t |-> "object", tags |-> tags, escape |-> escape]

\* Writer.prototype.getConfigTags
getConfigTags(config) ==
    IF config.t = "array" THEN config.tags
    ELSE IF config.t = "object" THEN config.tags
    ELSE UndefinedV

\* Writer.prototype.getConfigEscape
getConfigEscape(config) ==
    IF config.t = "object" THEN config.escape ELSE "undefined"

\* Writer.prototype.rawValue
rawValue(token) == token.value

\* Writer.prototype.unescapedValue
unescapedValue(token, context) ==
    LET Of(value) == IF ~IsNullish(value) THEN StringOf(value) ELSE <<>>
    IN  Of(lookup(context, token.value))

\* Writer.prototype.escapedValue; a caller's escape function is the identity.
escapedValue(token, context, config) ==
    LET Of(escape, value) ==
            IF IsNullish(value) THEN <<>>
            ELSE IF typeOf(value) = "number" /\ escape = "undefined" THEN StringOf(value)
            ELSE IF escape = "undefined" THEN escapeHtml(value)
            ELSE StringOf(value)
    IN  Of(getConfigEscape(config), lookup(context, token.value))

\* indentPartial that indents the first line whatever came before the tag.
indentPartialEveryLine(partial, indentation, lineHasNonSpace) ==
    LET Lines(filteredIndentation, partialByNl) ==
            Join([i \in 1..Len(partialByNl) |->
                     IF Len(partialByNl[i]) > 0
                     THEN filteredIndentation \o partialByNl[i]
                     ELSE partialByNl[i]],
                 <<"\n">>)
    IN  Lines(SelectSeq(indentation, LAMBDA c : c \in {" ", "\t"}),
              SplitOn(partial, "\n"))

\* Writer.prototype.indentPartial
indentPartial(partial, indentation, lineHasNonSpace) ==
    LET Lines(filteredIndentation, partialByNl) ==
            Join([i \in 1..Len(partialByNl) |->
                     IF Len(partialByNl[i]) > 0 /\ (i - 1 > 0 \/ ~lineHasNonSpace)
                     THEN filteredIndentation \o partialByNl[i]
                     ELSE partialByNl[i]],
                 <<"\n">>)
    IN  Lines(SelectSeq(indentation, LAMBDA c : c \in {" ", "\t"}),
              SplitOn(partial, "\n"))

\* isFunction(partials) ? partials(name) : partials[name], for partials that
\* is an object or a resolver function, given by its mapping in either case.
PartialValue(partials, name) ==
    IF name \in DOMAIN partials.v THEN StringV(partials.v[name]) ELSE UndefinedV

\* The depth of nested partials and sub-renders at which the call stack is
\* exhausted (a RangeError).
MaxDepth == 3

RECURSIVE RenderFrom(_, _, _, _, _, _, _, _)
RECURSIVE renderSection(_, _, _, _, _, _, _)
RECURSIVE SectionArray(_, _, _, _, _, _, _, _, _)
RECURSIVE renderInverted(_, _, _, _, _, _, _)
RECURSIVE renderPartial(_, _, _, _, _, _)
RECURSIVE render(_, _, _, _, _, _)

\* Writer.prototype.renderTokens; w holds the cache and the events so far.
renderTokens(tokens, context, partials, originalTemplate, config, w, lvl) ==
    RenderFrom(tokens, 1, context, partials, originalTemplate, config,
               R(<<>>, NoError, w.cache, w.log), lvl)

\* The value of one token (lines 96-101); acc supplies the cache and the events.
RenderToken(token, context, partials, originalTemplate, config, acc, lvl) ==
    CASE token.type = "#" ->
            renderSection(token, context, partials, originalTemplate, config, acc, lvl)
      [] token.type = "^" ->
            renderInverted(token, context, partials, originalTemplate, config, acc, lvl)
      [] token.type = ">" ->
            renderPartial(token, context, partials, config, acc, lvl)
      [] token.type = "&" ->
            R(unescapedValue(token, context), NoError, acc.cache, acc.log)
      [] token.type = "name" ->
            R(escapedValue(token, context, config), NoError, acc.cache, acc.log)
      [] token.type = "text" ->
            R(rawValue(token), NoError, acc.cache, acc.log)
      [] OTHER -> R(<<>>, NoError, acc.cache, acc.log)

\* The loop of renderTokens from index i (1-based); acc.out is the buffer.
RenderFrom(tokens, i, context, partials, originalTemplate, config, acc, lvl) ==
    LET \* r: the value of the token; buffer += value
        Added(r) ==
            RenderFrom(tokens, i + 1, context, partials, originalTemplate, config,
                       R(acc.out \o r.out, r.err, r.cache, r.log), lvl)
    IN  IF i > Len(tokens) \/ acc.err # NoError THEN acc
        ELSE Added(RenderToken(tokens[i], context, partials, originalTemplate,
                               config, acc, lvl))

\* renderTokens(token[4], context, ...) as renderSection and renderInverted
\* call it, observed.
RenderChildren(token, context, partials, originalTemplate, config, w, lvl) ==
    renderTokens(token.children, context, partials, originalTemplate, config,
                 [w EXCEPT !.log = Append(w.log,
                     Event("children", token.start, <<>>, <<>>, UndefinedV, context, lvl))],
                 lvl)

\* The loop over the elements with every element pushed on the scope of the
\* element before it, in place of the context of the section.
SectionArrayChained(token, value, j, context, partials, originalTemplate, config, acc, lvl) ==
    LET Added(r) ==
            SectionArray(token, value, j + 1, push(context, value.v[j]), partials,
                         originalTemplate, config,
                         R(acc.out \o r.out, r.err, r.cache, r.log), lvl)
    IN  IF j > Len(value.v) \/ acc.err # NoError THEN acc
        ELSE Added(RenderChildren(token, push(context, value.v[j]), partials,
                                  originalTemplate, config, acc, lvl))

\* The loop over the elements of an array value from index j (1-based).
SectionArray(token, value, j, context, partials, originalTemplate, config, acc, lvl) ==
    LET \* r: the children rendered for the element; buffer += it
        Added(r) ==
            SectionArray(token, value, j + 1, context, partials, originalTemplate,
                         config, R(acc.out \o r.out, r.err, r.cache, r.log), lvl)
    IN  IF j > Len(value.v) \/ acc.err # NoError THEN acc
        ELSE Added(RenderChildren(token, push(context, value.v[j]), partials,
                                  originalTemplate, config, acc, lvl))

\* value.call(context.view, text, subRender) for the callables of the model:
\* "echo" returns text, "render" returns subRender(text), "null" returns null.
CallLambda(kind, text, context, partials, config, w, lvl) ==
    IF kind = "render"
    THEN IF lvl >= MaxDepth
         THEN R(<<>>, Error("RangeError", <<>>, Undef), w.cache, w.log)
         ELSE render(text, context, partials, config, w, lvl + 1)
    ELSE IF kind = "echo" THEN R(text, NoError, w.cache, w.log)
    ELSE R(<<>>, NoError, w.cache, w.log)

\* renderSection without the push of line 127: the children of a section over
\* an object, a string or a number rendered against the enclosing context.
renderSectionNoPush(token, context, partials, originalTemplate, config, w, lvl) ==
    LET Called(value, text) ==
            CallLambda(value.v, text, context, partials, config,
                [w EXCEPT !.log = Append(w.log,
                    Event("lambda", token.start, text, originalTemplate.v,
                          getConfigTags(config), context, lvl))],
                lvl)
        Of(value) ==
            IF Falsy(value) THEN R(<<>>, NoError, w.cache, w.log)
            ELSE IF isArray(value)
            THEN SectionArray(token, value, 1, context, partials, originalTemplate,
                              config, R(<<>>, NoError, w.cache, w.log), lvl)
            ELSE IF isFunction(value)
            THEN IF originalTemplate.t # "string"
                 THEN R(<<>>, Error("Cannot use higher-order sections without the original template",
                                    token.value, token.start), w.cache, w.log)
                 ELSE Called(value, Slice(originalTemplate.v, token.end, token.closeStart))
            ELSE RenderChildren(token, context, partials, originalTemplate, config, w, lvl)
    IN  Of(lookup(context, token.value))

\* Writer.prototype.renderSection
renderSection(token, context, partials, originalTemplate, config, w, lvl) ==
    LET \* value.call(context.view, text, subRender)
        Called(value, text) ==
            CallLambda(value.v, text, context, partials, config,
                [w EXCEPT !.log = Append(w.log,
                    Event("lambda", token.start, text, originalTemplate.v,
                          getConfigTags(config), context, lvl))],
                lvl)
        \* the children of the section, against the context given
        Children(against) ==
            RenderChildren(token, against, partials, originalTemplate, config, w, lvl)
        Of(value) ==
            IF Falsy(value) THEN R(<<>>, NoError, w.cache, w.log)
            ELSE IF isArray(value)
            THEN SectionArray(token, value, 1, context, partials, originalTemplate,
                              config, R(<<>>, NoError, w.cache, w.log), lvl)
            ELSE IF typeOf(value) \in {"object", "string", "number"}
            THEN Children(push(context, value))
            ELSE IF isFunction(value)
            THEN IF originalTemplate.t # "string"
                 THEN R(<<>>, Error("Cannot use higher-order sections without the original template",
                                    token.value, token.start), w.cache, w.log)
                 ELSE Called(value, Slice(originalTemplate.v, token.end, token.closeStart))
            ELSE Children(context)
    IN  Of(lookup(context, token.value))

\* renderInverted without the test for an empty array of line 149.
renderInvertedFalsyOnly(token, context, partials, originalTemplate, config, w, lvl) ==
    LET Of(value) ==
            IF Falsy(value)
            THEN RenderChildren(token, context, partials, originalTemplate, config, w, lvl)
            ELSE R(<<>>, NoError, w.cache, w.log)
    IN  Of(lookup(context, token.value))

\* Writer.prototype.renderInverted
renderInverted(token, context, partials, originalTemplate, config, w, lvl) ==
    LET Of(value) ==
            IF Falsy(value) \/ (isArray(value) /\ Len(value.v) = 0)
            THEN RenderChildren(token, context, partials, originalTemplate, config, w, lvl)
            ELSE R(<<>>, NoError, w.cache, w.log)
    IN  Of(lookup(context, token.value))

\* The default tags always, in place of the tags of the config.
PartialTagsDefault(config) == UndefinedV

\* The tags renderPartial hands to parse.
PartialTags(config) == getConfigTags(config)

\* renderPartial that throws on a partial that is not there.
renderPartialStrict(token, context, partials, config, w, lvl) ==
    IF partials.t = "undefined" \/ IsNullish(PartialValue(partials, token.value))
    THEN R(<<>>, Error("Missing partial", token.value, token.start), w.cache, w.log)
    ELSE R(<<>>, NoError, w.cache, w.log)

\* Writer.prototype.renderPartial
renderPartial(token, context, partials, config, w, lvl) ==
    LET \* p: what this.parse(indentedValue, tags) gave
        Parsed(value, tags, indentedValue, p, log) ==
            IF p.err # NoError THEN R(<<>>, p.err, p.cache, log)
            ELSE renderTokens(p.tokens, context, partials, StringV(indentedValue),
                              config, [cache |-> p.cache, log |-> log], lvl + 1)
        Parse_(value, tags, indentedValue, p) ==
            Parsed(value, tags, indentedValue, p,
                   Append(w.log, ParseEvent(token.start, indentedValue, value.v,
                                            tags, context, lvl + 1, p)))
        Indented(value, tags, indentedValue) ==
            Parse_(value, tags, indentedValue,
                   WriterParse(indentedValue, tags, w.cache))
        Of(value, tags) ==
            IF IsNullish(value) THEN R(<<>>, NoError, w.cache, w.log)
            ELSE IF lvl >= MaxDepth
            THEN R(<<>>, Error("RangeError", <<>>, Undef), w.cache, w.log)
            ELSE Indented(value, tags,
                    IF token.tagIndex = 0 /\ token.indentation # <<>>
                    THEN indentPartial(value.v, token.indentation, token.lineHasNonSpace)
                    ELSE value.v)
    IN  IF partials.t = "undefined" THEN R(<<>>, NoError, w.cache, w.log)
        ELSE Of(PartialValue(partials, token.value), PartialTags(config))

\* Writer.prototype.render, given the context it builds from the view.
render(template, context, partials, config, w, lvl) ==
    LET \* p: what this.parse(template, tags) gave
        Parsed(p, log) ==
            IF p.err # NoError THEN R(<<>>, p.err, p.cache, log)
            ELSE renderTokens(p.tokens, context, partials, StringV(template), config,
                              [cache |-> p.cache, log |-> log], lvl)
        Parse_(tags, p) ==
            Parsed(p, Append(w.log, ParseEvent(Undef, template, template, tags,
                                               context, lvl, p)))
        With(tags) == Parse_(tags, WriterParse(template, tags, w.cache))
    IN  With(getConfigTags(config))

-----------------------------------------------------------------------------
(* The calls checked.  call is the call made last and its arguments,       *)
(* result what it returned or threw, templateCache the Writer's cache.     *)

Call(op, template, tags, view, partials, config, orig, done) ==
    [op |-> op, template |-> template, tags |-> tags, view |-> view,
     partials |-> partials, config |-> config, orig |-> orig, done |-> done]

Result(out, err, tokens, log) ==
    [out |-> out, err |-> err, tokens |-> tokens, log |-> log]

NoResult == Result(<<>>, NoError, <<>>, <<>>)

\* The longest template of the parser's inputs, in pieces.
MaxPieces == 3

\* The pieces the parser's templates are built from.
ParsePieces ==
    { <<"{", "{", "#", "a", "}", "}">>, <<"{", "{", "/", "a", "}", "}">>,
      <<"{", "{", "^", "b", "}", "}">>, <<"{", "{", "/", "b", "}", "}">>,
      <<"{", "{", "x", "}", "}">>, <<"{", "{", "!", "c", "}", "}">>,
      <<" ">>, <<"\n">>, <<"t">> }

RECURSIVE PieceTemplates(_, _)
\* The concatenations of at most n pieces.
PieceTemplates(pieces, n) ==
    IF n = 0 THEN {<<>>}
    ELSE LET shorter == PieceTemplates(pieces, n - 1)
         IN  shorter \cup {t \o p : t \in shorter, p \in pieces}

\* Templates with the other kinds of tag: a delimiter change, partials, the
\* two unescaped forms, blanks inside a tag, a tag left unclosed, a tag that
\* spans two lines, other whitespace.
ExtraTemplates ==
    { <<"{", "{", "=", "|", " ", "|", "=", "}", "}", "|", "#", "a", "|", " ",
        "{", "{", "x", "}", "}", "|", "/", "a", "|">>,
      <<"{", "{", "=", "|", " ", "|", "=", "}", "}", "\n", "|", "/", "a", "|">>,
      <<"{", "{", "=", "|", "=", "}", "}", "t">>,
      <<" ", " ", "{", "{", ">", "p", "}", "}", "\n", "t", " ", "{", "{", ">", "p", "}", "}">>,
      <<"\t", "{", "{", "{", "x", "}", "}", "}", "\n">>,
      <<" ", "{", "{", "&", "x", "}", "}">>,
      <<"\r", "{", "{", "#", " ", "a", " ", "}", "}", "\r", "\n", "{", "{", "/", "a", "}", "}">>,
      <<"t", "{", "{", "#", "a">>,
      <<" ", "{", "{", "!", "c", "\n", "c", "}", "}", " ", "\n", "t">>,
      <<"{", "{", "#", "a", "}", "}", "{", "{", "#", "a", "}", "}", "t",
        "{", "{", "/", "a", "}", "}", "\n", "{", "{", "/", "a", "}", "}">> }

ParseTemplates == PieceTemplates(ParsePieces, MaxPieces) \cup ExtraTemplates

\* Delimiter arguments that are a pair, and arguments that are not.
PairTags == {UndefinedV, TagsV(<< <<"|">>, <<"|">> >>)}

NonPairTags ==
    { TagsV(<< <<"{", "{">> >>),
      TagsV(<< <<"{", "{">>, <<"}", "}">>, <<"|">> >>),
      TagsV(<<>>) }

\* The templates tried with delimiters that are no pair.
ShortTemplates == PieceTemplates(ParsePieces, 1)

ParseCalls ==
    {Call("parseTemplate", t, d, UndefinedV, UndefinedV, NoConfig, UndefinedV, FALSE) :
        t \in ParseTemplates, d \in PairTags}
    \cup
    {Call("parseTemplate", t, d, UndefinedV, UndefinedV, NoConfig, UndefinedV, FALSE) :
        t \in ShortTemplates, d \in NonPairTags}

InitParse ==
    /\ templateCache = EmptyCache
    /\ call \in ParseCalls
    /\ result = NoResult

\* parseTemplate(template, tags) returns or throws.
ParseTemplateCall ==
    /\ call.op = "parseTemplate"
    /\ ~call.done
    /\ LET Returned(p) == result' = Result(<<>>, p.err, p.tokens, <<>>)
       IN  Returned(parseTemplate(call.template, call.tags))
    /\ call' = [call EXCEPT !.done = TRUE]
    /\ UNCHANGED templateCache

NextParse == ParseTemplateCall

SpecParse == InitParse /\ [][NextParse]_vars

-----------------------------------------------------------------------------
(* Section nesting, stated without a stack (claim C2).                     *)

IsOpen(token) == token.type \in {"#", "^"}

\* The section tags (open and close) among tokens, in order.
SectionTags(tokens) ==
    SelectSeq(tokens, LAMBDA t : t.type \in {"#", "^", "/"})

RECURSIVE Reduce(_)
\* tags with every open tag that is directly followed by a close tag of its
\* name cancelled, repeatedly: empty exactly when tags is well nested by name.
Reduce(tags) ==
    LET P == {i \in 1..(Len(tags) - 1) :
                 /\ IsOpen(tags[i])
                 /\ tags[i + 1].type = "/"
                 /\ tags[i + 1].value = tags[i].value}
    IN  IF P = {} THEN tags
        ELSE Reduce(SubSeq(tags, 1, Min(P) - 1) \o SubSeq(tags, Min(P) + 2, Len(tags)))

Front(seq) == SubSeq(seq, 1, Len(seq) - 1)

Last(seq) == seq[Len(seq)]

\* The error the nesting rule gives for the section tags scanned (the scan
\* stops at the first close tag that breaks it), for a template of length n.
NestingVerdict(tags, n) ==
    IF tags = <<>> THEN NoError
    ELSE LET open == Reduce(Front(tags))
             last == Last(tags)
         IN  IF last.type = "/" /\ open = <<>>
             THEN Error("Unopened section", last.value, last.start)
             ELSE IF last.type = "/" /\ Last(open).value # last.value
             THEN Error("Unclosed section", Last(open).value, last.start)
             ELSE IF Reduce(tags) = <<>> THEN NoError
             ELSE Error("Unclosed section", Last(Reduce(tags)).value, n)

\* The index of the close tag that matches the open tag flat[1].
MatchingClose(flat) ==
    Min({j \in 2..Len(flat) : Reduce(SectionTags(SubSeq(flat, 1, j))) = <<>>})

RECURSIVE TreeOf(_)
\* The tree of a well-nested flat token list, by descent: a section holds the
\* tokens between its open tag and the matching close tag.
TreeOf(flat) ==
    IF flat = <<>> THEN <<>>
    ELSE IF IsOpen(flat[1])
    THEN LET j == MatchingClose(flat)
         IN  << [flat[1] EXCEPT !.children = TreeOf(SubSeq(flat, 2, j - 1)),
                                !.closeStart = flat[j].start] >>
             \o TreeOf(SubSeq(flat, j + 1, Len(flat)))
    ELSE <<flat[1]>> \o TreeOf(Tail(flat))

\* The call is a finished parseTemplate with a delimiter pair.
ParsedWithPair ==
    call.op = "parseTemplate" /\ call.done /\ call.tags \in PairTags

\* C2: for a template whose tags are all closed and whose delimiters are
\* valid, parseTemplate returns a tree exactly when the section tags are well
\* nested by name; it throws 'Unopened section' at a close tag met with no
\* section open, 'Unclosed section' at a close tag whose name differs from the
\* innermost open section's and at the end of input when a section is still
\* open; the tree returned holds, for every section, the tokens between its
\* open tag and the matching close tag and that close tag's start offset.
C2_WellNested ==
    (ParsedWithPair /\ result.err.kind \notin {"Unclosed tag", "Invalid tags"}) =>
        LET scanned == ParseScan(call.template, call.tags).tokens
            tags == SectionTags(scanned)
        IN  /\ \A i \in 1..Len(Reduce(Front(tags))) : IsOpen(Reduce(Front(tags))[i])
            /\ (result.err = NoError) <=> (Reduce(tags) = <<>>)
            /\ result.err = NestingVerdict(tags, Len(call.template))
            /\ result.err = NoError => result.tokens = TreeOf(squashTokens(scanned))

\* A parse that returned a section nested in a section, the inner one with a child.
C2_Witness ==
    /\ ParsedWithPair
    /\ result.err = NoError
    /\ \E i \in 1..Len(result.tokens) :
          /\ IsOpen(result.tokens[i])
          /\ \E j \in 1..Len(result.tokens[i].children) :
                /\ IsOpen(result.tokens[i].children[j])
                /\ result.tokens[i].children[j].children # <<>>

-----------------------------------------------------------------------------
(* Standalone lines, stated on the offsets of the template (claim C3).     *)

RECURSIVE AllTokens(_)
\* The tokens of a tree, those of the sections' children included.
AllTokens(tokens) ==
    IF tokens = <<>> THEN <<>>
    ELSE <<tokens[1]>> \o AllTokens(tokens[1].children) \o AllTokens(Tail(tokens))

SeqToSet(seq) == {seq[i] : i \in 1..Len(seq)}

\* The tags of the template (close tags included), as scanned.
TagsOf(template, tags) ==
    {t \in SeqToSet(squashTokens(ParseScan(template, tags).tokens)) : t.type # "text"}

\* The offsets of the template outside every tag of T: its literal text.
LiteralOffsets(template, T) ==
    {o \in 0..(Len(template) - 1) : \A t \in T : ~(t.start <= o /\ o < t.end)}

\* The line of offset o: the number of literal newlines (those at offsets
\* of L) before it.
LineOf(template, L, o) ==
    Cardinality({q \in L : q < o /\ template[q + 1] = "\n"})

TagsOnLine(template, T, L, l) == {t \in T : LineOf(template, L, t.start) = l}

OnlyWhitespaceOutsideTags(template, L, l) ==
    \A o \in L : LineOf(template, L, o) = l => template[o + 1] \in WhitespaceChars

\* Line l holds a tag, nothing but whitespace outside its tags, and no
\* variable tag ({{x}}, {{{x}}}, {{&x}}).
Standalone(template, T, L, l) ==
    /\ TagsOnLine(template, T, L, l) # {}
    /\ OnlyWhitespaceOutsideTags(template, L, l)
    /\ \A t \in TagsOnLine(template, T, L, l) : t.type \notin {"name", "&"}

\* Line l holds a tag and nothing but whitespace outside its tags.
TagAndWhitespaceOnly(template, T, L, l) ==
    /\ TagsOnLine(template, T, L, l) # {}
    /\ OnlyWhitespaceOutsideTags(template, L, l)

\* The offsets the text tokens of a tree cover.
TextOffsets(tokens) ==
    UNION {t.start..(t.end - 1) : t \in {u \in SeqToSet(AllTokens(tokens)) : u.type = "text"}}

\* Every text token of the tree is the text of the template at its offsets.
TextUnchanged(template, tokens) ==
    \A t \in SeqToSet(AllTokens(tokens)) :
        t.type = "text" => t.value = Slice(template, t.start, t.end)

ParsedTree == ParsedWithPair /\ result.err = NoError

\* C3 (as amended): at every line boundary the whitespace recorded for the
\* line is discarded exactly when a tag started on the line, no non-whitespace
\* character appeared on it outside a tag and none of its tags is a variable
\* tag; all other text is kept in the token tree unchanged.
C3_StandaloneStripped ==
    ParsedTree =>
        LET T == TagsOf(call.template, call.tags)
            L == LiteralOffsets(call.template, T)
        IN  /\ TextOffsets(result.tokens) =
                  {o \in L : ~Standalone(call.template, T, L, LineOf(call.template, L, o))}
            /\ TextUnchanged(call.template, result.tokens)

\* C3 as claimed: the whitespace of a line is discarded exactly when a tag
\* started on it and no non-whitespace character appeared outside a tag.
C3_AsClaimed ==
    ParsedTree =>
        LET T == TagsOf(call.template, call.tags)
            L == LiteralOffsets(call.template, T)
        IN  /\ TextOffsets(result.tokens) =
                  {o \in L : ~TagAndWhitespaceOnly(call.template, T, L,
                                                   LineOf(call.template, L, o))}
            /\ TextUnchanged(call.template, result.tokens)

\* A parse that discarded the whitespace of one line and kept that of another
\* line, which holds a tag too.
C3_Witness ==
    /\ ParsedTree
    /\ LET T == TagsOf(call.template, call.tags)
           L == LiteralOffsets(call.template, T)
       IN  \E o1, o2 \in L :
              /\ call.template[o1 + 1] \in WhitespaceChars
              /\ call.template[o2 + 1] \in WhitespaceChars
              /\ o1 \notin TextOffsets(result.tokens)
              /\ o2 \in TextOffsets(result.tokens)
              /\ TagsOnLine(call.template, T, L, LineOf(call.template, L, o2)) # {}

-----------------------------------------------------------------------------
(* Delimiters that are no pair (claim C7).                                 *)

\* C7: parseTemplate(template, tags) throws for every template, the empty one
\* included, when tags is supplied and is not a two-element pair.
C7_NonPairRejected ==
    (call.op = "parseTemplate" /\ call.done /\ call.tags \in NonPairTags) =>
        result.err # NoError

-----------------------------------------------------------------------------
(* Rendering on a new Writer: one call of render or renderTokens.          *)

Str_a == <<"a">>
Str_s == <<"s">>
Str_x == <<"x">>
Str_p == <<"p">>
Str_q == <<"q">>
Str_f == <<"f">>
Str_v == <<"v">>

\* The values a section's name is bound to.
SectionValues ==
    { ObjV(Str_x :> StringV(Str_v)), StringV(Str_a), NumV(7), BoolV(TRUE),
      BoolV(FALSE), NumV(0), StringV(<<>>), NullV, NaNV,
      ArrV(<<>>), ArrV(<<StringV(Str_a), NumV(7)>>),
      FunV("echo"), FunV("render"), FunV("null") }

\* The views: s bound to each value, x always bound, and s absent.
SectionViews ==
    {ObjV((Str_s :> v) @@ (Str_x :> StringV(<<"<">>))) : v \in SectionValues}
    \cup {ObjV(Str_x :> StringV(<<"<">>)), ObjV(<<>>)}

\* The longest template of the section calls, in pieces.
MaxSectionPieces == 2

\* A section around a reference to the current view, an inverted section
\* around a variable, text, a partial, and a variable and a partial that are
\* bound to nothing.
SectionPieces ==
    { <<"{", "{", "#", "s", "}", "}", "{", "{", ".", "}", "}", "{", "{", "/", "s", "}", "}">>,
      <<"{", "{", "^", "s", "}", "}", "{", "{", "x", "}", "}", "{", "{", "/", "s", "}", "}">>,
      <<"t">>,
      <<"{", "{", ">", "p", "}", "}">>,
      <<"{", "{", "y", "}", "}", "{", "{", ">", "q", "}", "}">> }

\* The partials of the section calls: none, and a mapping in which p is a
\* template with a section and q is absent.
SectionPartials ==
    { UndefinedV,
      ObjV(Str_p :> <<"{", "{", "#", "s", "}", "}", "t", "{", "{", "/", "s", "}", "}">>) }

SectionTemplates == PieceTemplates(SectionPieces, MaxSectionPieces)

\* The longest template of the partial calls, in pieces.
MaxPartialPieces == 2

PartialPieces ==
    { <<" ">>, <<"\t">>, <<"\r">>, <<"\n">>, <<"t">>,
      <<"{", "{", "!", "c", "}", "}">>, <<"{", "{", ">", "p", "}", "}">> }

PartialTemplates == PieceTemplates(PartialPieces, MaxPartialPieces)

\* The partials of the partial calls.  p is, in turn: two lines, lines with an
\* empty line between and a newline at the end, a template with a lambda
\* section, an unclosed section, a partial that includes itself.
PartialBodies ==
    { <<"l", "\n", "m">>,
      <<"l", "\n", "\n", "{", "{", "x", "}", "}", "\n">>,
      <<"{", "{", "#", "f", "}", "}", "t", "\n", "{", "{", "x", "}", "}", "{", "{", "/", "f", "}", "}">>,
      <<"{", "{", "#", "s", "}", "}">>,
      <<"t", "{", "{", ">", "p", "}", "}">> }

PartialPartials ==
    {ObjV(Str_p :> b) : b \in PartialBodies} \cup {UndefinedV}

PartialView ==
    ObjV((Str_f :> FunV("render")) @@ (Str_x :> StringV(Str_v)))

\* The tag that changes the delimiters to | and |.
SwitchTag == <<"{", "{", "=", "|", " ", "|", "=", "}", "}">>

BarTags == TagsV(<< <<"|">>, <<"|">> >>)

\* Templates written with the delimiters | and |: a partial, a section over a
\* callable around text in either pair of delimiters, variables in both.
BarTemplates ==
    { <<"|", ">", "p", "|">>,
      <<"|", "#", "f", "|", "{", "{", "x", "}", "}", "|", "/", "f", "|">>,
      <<"|", "#", "f", "|", "|", "x", "|", "|", "/", "f", "|">>,
      <<"|", "x", "|", "{", "{", "x", "}", "}">> }

\* The same after a delimiter change, and as they are.
SwitchTemplates ==
    {SwitchTag \o t : t \in BarTemplates} \cup BarTemplates

\* p in the default delimiters, in | and |, and with a delimiter change.
SwitchPartials ==
    { ObjV(Str_p :> <<"{", "{", "x", "}", "}">>),
      ObjV(Str_p :> <<"|", "x", "|">>),
      ObjV(Str_p :> SwitchTag \o <<"|", "x", "|">>) }

SwitchConfigs == {NoConfig, ArrayConfig(BarTags.v)}

RenderCalls ==
    {Call("render", t, UndefinedV, v, p, NoConfig, UndefinedV, FALSE) :
        t \in SectionTemplates, v \in SectionViews, p \in SectionPartials}
    \cup
    {Call("render", t, UndefinedV, PartialView, p, NoConfig, UndefinedV, FALSE) :
        t \in PartialTemplates, p \in PartialPartials}
    \cup
    {Call("render", t, UndefinedV, PartialView, p, c, UndefinedV, FALSE) :
        t \in SwitchTemplates, p \in SwitchPartials, c \in SwitchConfigs}

\* renderTokens on the tree of a template, without the template.
RenderTokensCalls ==
    {[c EXCEPT !.op = "renderTokens"] : c \in RenderCalls}

InitRender ==
    /\ templateCache = EmptyCache
    /\ call \in RenderCalls \cup RenderTokensCalls
    /\ result = NoResult

\* mustache.render(template, view, partials, config): the default Writer's
\* render, the template being a string.
RenderCall ==
    /\ call.op = "render"
    /\ ~call.done
    /\ LET Returned(r) ==
               /\ result' = Result(r.out, r.err, <<>>, r.log)
               /\ templateCache' = r.cache
       IN  Returned(render(call.template, NewContext(call.view), call.partials,
                           call.config, [cache |-> templateCache, log |-> <<>>], 0))
    /\ call' = [call EXCEPT !.done = TRUE]

\* writer.renderTokens(tokens, context, partials, originalTemplate, config)
\* on the tokens writer.parse returned for the template.
RenderTokensCall ==
    /\ call.op = "renderTokens"
    /\ ~call.done
    /\ LET Returned(p, r) ==
               /\ result' = Result(r.out, r.err, p.tokens, r.log)
               /\ templateCache' = r.cache
           Parsed(p) ==
               /\ p.err = NoError
               /\ Returned(p, renderTokens(p.tokens, NewContext(call.view),
                                           call.partials, call.orig, call.config,
                                           [cache |-> p.cache, log |-> <<>>], 0))
       IN  Parsed(WriterParse(call.template, getConfigTags(call.config), templateCache))
    /\ call' = [call EXCEPT !.done = TRUE]

NextRender == RenderCall \/ RenderTokensCall

SpecRender == InitRender /\ [][NextRender]_vars

-----------------------------------------------------------------------------
(* Sections (claims C4 and C9).                                            *)

RenderDone == call.op \in {"render", "renderTokens"} /\ call.done

\* The tokens of the template of the call, at the top level of its tree:
\* render reaches each of them once, with the context of the view alone.
TopTokens == parseTemplate(call.template, getConfigTags(call.config)).tokens

TopSections(types) ==
    {t \in SeqToSet(TopTokens) : t.type \in types}

\* The events of the renderings of the children of top-level section token.
ChildrenEvents(token) ==
    {i \in 1..Len(result.log) :
        /\ result.log[i].ev = "children"
        /\ result.log[i].tok = token.start
        /\ result.log[i].level = 0}

RootContext == <<call.view>>

ValueOf(token) == lookup(RootContext, token.value)

\* Truthy, no sequence and not callable.
TruthyPlain(value) == ~Falsy(value) /\ ~isArray(value) /\ ~isFunction(value)

\* The children of token were rendered once, against context.
RenderedOnceAgainst(token, context) ==
    /\ Cardinality(ChildrenEvents(token)) = 1
    /\ \A i \in ChildrenEvents(token) : result.log[i].ctx = context

\* C4 (as amended): a section whose value is an object, a non-empty string or
\* a non-zero number renders its children exactly once against a new child
\* scope whose view is that value, where "." resolves to the value; a section
\* whose value is boolean true renders them exactly once against the current,
\* unmodified context.
C4_TruthyPushesScope ==
    (RenderDone /\ result.err = NoError) =>
        \A s \in TopSections({"#"}) :
            LET v == ValueOf(s)
            IN  TruthyPlain(v) =>
                   IF v.t = "boolean"
                   THEN RenderedOnceAgainst(s, RootContext)
                   ELSE /\ RenderedOnceAgainst(s, <<call.view, v>>)
                        /\ \A i \in ChildrenEvents(s) :
                              lookup(result.log[i].ctx, <<".">>) = v

\* C4 as claimed: every truthy value that is no sequence and not callable,
\* boolean true included, becomes the view of a new child scope.
C4_AsClaimed ==
    (RenderDone /\ result.err = NoError) =>
        \A s \in TopSections({"#"}) :
            LET v == ValueOf(s)
            IN  TruthyPlain(v) =>
                   /\ RenderedOnceAgainst(s, <<call.view, v>>)
                   /\ \A i \in ChildrenEvents(s) :
                         lookup(result.log[i].ctx, <<".">>) = v

\* The section {{#s}}{{.}}{{/s}} rendered with s bound to 7: the output is 7.
C4_Witness ==
    /\ RenderDone /\ result.err = NoError
    /\ \E s \in TopSections({"#"}) :
          /\ ValueOf(s) = NumV(7)
          /\ RenderedOnceAgainst(s, <<call.view, NumV(7)>>)
    /\ result.out = <<"7">>

\* false, 0, the empty string, absent (undefined or null), NaN, an empty sequence.
FalsyOrEmpty(value) ==
    \/ value.t \in {"undefined", "null", "NaN"}
    \/ value = BoolV(FALSE)
    \/ value = NumV(0)
    \/ value = StringV(<<>>)
    \/ value = ArrV(<<>>)

\* C9: for a value that is not callable, a section renders its children zero
\* times exactly when the value is false, 0, the empty string, absent, NaN or
\* an empty sequence, and exactly then the inverted section over the same name
\* renders its children once, against the current context; otherwise the
\* inverted section renders nothing.
C9_SectionInvertedComplementary ==
    (RenderDone /\ result.err = NoError) =>
        /\ \A a \in TopSections({"#"}) :
              ~isFunction(ValueOf(a)) =>
                 ((ChildrenEvents(a) = {}) <=> FalsyOrEmpty(ValueOf(a)))
        /\ \A b \in TopSections({"^"}) :
              ~isFunction(ValueOf(b)) =>
                 /\ RenderedOnceAgainst(b, RootContext) <=> FalsyOrEmpty(ValueOf(b))
                 /\ ~FalsyOrEmpty(ValueOf(b)) => ChildrenEvents(b) = {}
        /\ \A a \in TopSections({"#"}), b \in TopSections({"^"}) :
              (a.value = b.value /\ ~isFunction(ValueOf(a))) =>
                 (RenderedOnceAgainst(b, RootContext) <=> (ChildrenEvents(a) = {}))

\* A section and an inverted section over a name bound to an empty sequence:
\* only the inverted section rendered its children.
C9_Witness ==
    /\ RenderDone /\ result.err = NoError
    /\ \E a \in TopSections({"#"}), b \in TopSections({"^"}) :
          /\ a.value = b.value
          /\ ValueOf(a) = ArrV(<<>>)
          /\ ChildrenEvents(a) = {}
          /\ RenderedOnceAgainst(b, RootContext)
    /\ result.out = <<"&", "l", "t", ";">>

-----------------------------------------------------------------------------
(* The text parsed for a partial, stated on the offsets of the template    *)
(* that includes it (claim C8).                                            *)

\* The parses of the partials the template of the call includes directly.
PartialParses ==
    {i \in 1..Len(result.log) :
        /\ result.log[i].ev = "parse"
        /\ result.log[i].level = 1
        /\ result.log[i].tok # Undef}

RECURSIVE Prefixed(_, _, _, _)
\* text from index i on, with prefix before every line that is not empty;
\* atStart tells that index i starts a line that takes the prefix.
Prefixed(text, i, prefix, atStart) ==
    IF i > Len(text) THEN <<>>
    ELSE IF text[i] = "\n" THEN <<"\n">> \o Prefixed(text, i + 1, prefix, TRUE)
    ELSE (IF atStart THEN prefix ELSE <<>>) \o <<text[i]>>
            \o Prefixed(text, i + 1, prefix, FALSE)

\* The indentation captured for a tag at offset off with n characters before
\* it on its line: whitespace as it is, a blank for every other character.
CapturedPrefix(template, off, n) ==
    [k \in 1..n |->
        IF template[off - n + k] \in WhitespaceChars THEN template[off - n + k] ELSE " "]

\* The text of a partial with template value, included by the tag at offset
\* off, when the characters of keep are those of the captured indentation
\* that are prefixed.
IndentedText(template, off, value, keep) ==
    LET T == TagsOf(template, UndefinedV)
        L == LiteralOffsets(template, T)
        l == LineOf(template, L, off)
        before == {o \in L : o < off /\ LineOf(template, L, o) = l}
        first == \A t \in TagsOnLine(template, T, L, l) : t.start >= off
        captured == CapturedPrefix(template, off, Cardinality(before))
        hadNonSpace == \E o \in before : template[o + 1] \notin WhitespaceChars
    IN  IF first /\ captured # <<>>
        THEN Prefixed(value, 1, SelectSeq(captured, LAMBDA c : c \in keep), ~hadNonSpace)
        ELSE value

AllChars == WhitespaceChars \cup {"t", " "}

\* The text a lambda of a partial is given is cut from the text parsed.
PartialTextIsOriginal ==
    \A j \in 1..Len(result.log) :
        (result.log[j].ev = "lambda" /\ result.log[j].level = 1) =>
            \E i \in PartialParses : result.log[j].src = result.log[i].text

-----------------------------------------------------------------------------
(* Rendering a parsed tree: misses and errors (claim C6).                  *)

RenderTokensDone == call.op = "renderTokens" /\ call.done

HigherOrderError ==
    "Cannot use higher-order sections without the original template"

ParseErrors ==
    {"Unclosed tag", "Unopened section", "Unclosed section", "Invalid tags"}

\* The partials collaborator is absent or has no template for the name.
PartialMissing(name) ==
    call.partials.t = "undefined" \/ name \notin DOMAIN call.partials.v

RECURSIVE AllMiss(_)
\* Every token of tokens, rendered against the view of the call, is a miss:
\* a variable that resolves to nothing, a partial that is not there, a
\* section over a falsy value (an inverted section over one renders its
\* children, which are misses in turn).
AllMiss(tokens) ==
    \A i \in 1..Len(tokens) :
        LET t == tokens[i]
        IN  CASE t.type \in {"name", "&"} -> IsNullish(ValueOf(t))
              [] t.type = ">" -> PartialMissing(t.value)
              [] t.type = "#" -> FalsyOrEmpty(ValueOf(t))
              [] t.type = "^" -> FalsyOrEmpty(ValueOf(t)) /\ AllMiss(t.children)
              [] OTHER -> TRUE

RECURSIVE TextOf(_)
\* The text of tokens and of the children of its inverted sections.
TextOf(tokens) ==
    IF tokens = <<>> THEN <<>>
    ELSE (CASE tokens[1].type = "text" -> tokens[1].value
            [] tokens[1].type = "^" -> TextOf(tokens[1].children)
            [] OTHER -> <<>>)
         \o TextOf(Tail(tokens))

\* Misses are no errors and add nothing to the output.
MissesAddNothing ==
    AllMiss(result.tokens) =>
        result.err = NoError /\ result.out = TextOf(result.tokens)

\* A section of the tree is over a name the view binds to a callable.
SomeCallableSection ==
    \E t \in SeqToSet(AllTokens(result.tokens)) :
        t.type = "#" /\ isFunction(ValueOf(t))

\* The error is that of parsing a text that was parsed while rendering.
ErrorOfParsedText ==
    \E i \in 1..Len(result.log) :
        /\ result.log[i].ev = "parse"
        /\ parseTemplate(result.log[i].text, result.log[i].tags).err = result.err

\* C6 (as amended): rendering a parsed token tree never fails on a miss (an
\* unresolved variable, an unresolved partial name, absent partials and a
\* falsy section value each add nothing to the output); it ends in an error
\* when it reaches a section whose value is callable while the original
\* template is not a string, when the template of a resolved partial or the
\* text a callable renders fails to parse, and when partials or sub-renders
\* nest until the call stack is exhausted.
C6_RenderErrors ==
    RenderTokensDone =>
        /\ MissesAddNothing
        /\ result.err # NoError =>
              \/ /\ result.err.kind = HigherOrderError
                 /\ call.orig.t # "string"
                 /\ SomeCallableSection
              \/ /\ result.err.kind \in ParseErrors
                 /\ ErrorOfParsedText
              \/ /\ result.err.kind = "RangeError"
                 /\ \E i \in 1..Len(result.log) : result.log[i].level = MaxDepth

\* C6 as claimed (the exhaustion of the call stack aside): the only error of
\* rendering a token tree is that of a callable section without the
\* original template.
C6_AsClaimed ==
    RenderTokensDone =>
        /\ MissesAddNothing
        /\ (result.err # NoError /\ result.err.kind # "RangeError") =>
              /\ result.err.kind = HigherOrderError
              /\ call.orig.t # "string"

\* A tree of text, an unresolved variable and an unresolved partial, rendered
\* to its text.
C6_Witness ==
    /\ RenderTokensDone
    /\ AllMiss(result.tokens)
    /\ \E t \in SeqToSet(result.tokens) : t.type = ">"
    /\ \E t \in SeqToSet(result.tokens) : t.type = "name"
    /\ result.err = NoError
    /\ result.out = <<"t">>

-----------------------------------------------------------------------------
(* The delimiters every parse starts from (claim C10).                     *)

\* The delimiters the caller of render supplied (none: the default pair).
CallerTags == getConfigTags(call.config)

ParseEvents ==
    {i \in 1..Len(result.log) : result.log[i].ev = "parse"}

\* The type, the value and the offsets of the top-level tokens from index
\* from on, the offsets less by.
Outline(tokens, from, by) ==
    [k \in 1..(Len(tokens) - from + 1) |->
        LET t == tokens[from + k - 1]
        IN  <<t.type, t.value, t.start - by, t.end - by>>]

\* The template of the call is one of BarTemplates after the delimiter change.
AfterSwitch ==
    /\ Len(call.template) > Len(SwitchTag)
    /\ SubSeq(call.template, 1, Len(SwitchTag)) = SwitchTag

\* C10: within a render every parse (of the template, of the template of a
\* partial, of the text a callable renders) is given the delimiters of the
\* caller and returns what parseTemplate returns for its text from those
\* delimiters (the default pair if there are none), whatever delimiter
\* changes the templates parsed before it or around it contain; a delimiter
\* change makes the tags after it in its template those of the rest of the
\* template under the new pair.
C10_DelimitersPerParse ==
    RenderDone =>
        /\ \A i \in ParseEvents :
              /\ result.log[i].tags = CallerTags
              /\ result.log[i].tokens =
                    parseTemplate(result.log[i].text, CallerTags).tokens
              /\ result.log[i].err =
                    parseTemplate(result.log[i].text, CallerTags).err
        /\ (AfterSwitch /\ CallerTags = UndefinedV) =>
              LET rest == SubSeq(call.template, Len(SwitchTag) + 1, Len(call.template))
              IN  Outline(TopTokens, 2, Len(SwitchTag))
                     = Outline(parseTemplate(rest, BarTags).tokens, 1, 0)

\* A template that changes the delimiters and includes a partial written in
\* the default delimiters, rendered with no delimiters supplied: the partial
\* is parsed from the default pair and its variable renders.
C10_Witness ==
    /\ RenderDone /\ result.err = NoError
    /\ AfterSwitch
    /\ CallerTags = UndefinedV
    /\ \E i \in ParseEvents :
          /\ result.log[i].level = 1
          /\ result.log[i].text = <<"{", "{", "x", "}", "}">>
    /\ result.out = Str_v

-----------------------------------------------------------------------------
(* The default Writer over a sequence of calls: parse, render, clearCache  *)
(* and the replacement of the cache.                                       *)

\* Two templates and two delimiter arguments with one cache key between them:
\* ColonTemplate with the default delimiters, and ShortTemplate with ColonTags.
ColonTemplate ==
    <<"{", "{", "#", "f", "}", "}", "a", ":", "{", "{", "/", "f", "}", "}">>

ShortTemplate == <<"{", "{", "#", "f", "}", "}", "a">>

ColonTags ==
    TagsV(<< <<"{", "{", "/", "f", "}", "}", ":", "{", "{">>, <<"}", "}">> >>)

\* The templates of the calls: the two above, one that does not parse, one
\* that includes a partial.
WriterTemplates ==
    { ColonTemplate, ShortTemplate,
      <<"{", "{", "#", "s", "}", "}">>,
      <<"t", "{", "{", ">", "p", "}", "}">> }

WriterTags == {UndefinedV, ColonTags}

\* f is a callable that returns the text it is given.
WriterView ==
    ObjV((Str_f :> FunV("echo")) @@ (Str_x :> StringV(Str_v)))

WriterPartials == ObjV(Str_p :> <<"{", "{", "x", "}", "}">>)

\* render takes the delimiters as its config.
ConfigOf(tags) == IF tags = UndefinedV THEN NoConfig ELSE ArrayConfig(tags.v)

Init ==
    /\ templateCache = EmptyCache
    /\ call = Call("new", <<>>, UndefinedV, UndefinedV, UndefinedV, NoConfig,
                   UndefinedV, TRUE)
    /\ result = NoResult

\* mustache.parse(template, tags)
Parse(template, tags) ==
    /\ LET Returned(p) ==
               /\ result' = Result(<<>>, p.err, p.tokens, <<>>)
               /\ templateCache' = p.cache
       IN  Returned(WriterParse(template, tags, templateCache))
    /\ call' = Call("parse", template, tags, UndefinedV, UndefinedV, NoConfig,
                    UndefinedV, TRUE)

\* mustache.render(template, view, partials, config)
Render(template, view, partials, config) ==
    /\ LET Returned(r) ==
               /\ result' = Result(r.out, r.err, <<>>, r.log)
               /\ templateCache' = r.cache
       IN  Returned(render(template, NewContext(view), partials, config,
                           [cache |-> templateCache, log |-> <<>>], 0))
    /\ call' = Call("render", template, getConfigTags(config), view, partials,
                    config, UndefinedV, TRUE)

\* mustache.clearCache()
ClearCache ==
    /\ templateCache' = [templateCache EXCEPT !.entries = <<>>]
    /\ call' = Call("clearCache", <<>>, UndefinedV, UndefinedV, UndefinedV,
                    NoConfig, UndefinedV, TRUE)
    /\ result' = NoResult

\* mustache.templateCache = cache: undefined (no caching) or a new cache.
SetTemplateCache(cache) ==
    /\ templateCache' = cache
    /\ call' = Call("templateCache", <<>>, UndefinedV, UndefinedV, UndefinedV,
                    NoConfig, UndefinedV, TRUE)
    /\ result' = NoResult

Next ==
    \/ \E t \in WriterTemplates, d \in WriterTags : Parse(t, d)
    \/ \E t \in WriterTemplates, d \in WriterTags :
          Render(t, WriterView, WriterPartials, ConfigOf(d))
    \/ ClearCache
    \/ \E c \in {NoCache, EmptyCache} : SetTemplateCache(c)

Spec == Init /\ [][Next]_vars

-----------------------------------------------------------------------------
(* The cache (claim C1) and the text a callable is given (claim C5).       *)

\* C1: after any sequence of parse, render and clearCache calls, parse(t, d)
\* gives the tree or the error of parseTemplate(t, d), and render gives the
\* output of the same render on a Writer with an empty cache.
C1_CacheTransparent ==
    /\ (call.op = "parse" /\ call.done) =>
          /\ result.err = parseTemplate(call.template, call.tags).err
          /\ result.tokens = parseTemplate(call.template, call.tags).tokens
    /\ (call.op = "render" /\ call.done) =>
          LET r == render(call.template, NewContext(call.view), call.partials,
                          call.config, [cache |-> EmptyCache, log |-> <<>>], 0)
          IN  result.out = r.out /\ result.err = r.err

\* C5: the text a callable section value is given is the text of the template
\* that was parsed, from the end of the open tag of a section of that
\* template to the start of its close tag.
C5_LambdaText ==
    (call.op = "render" /\ call.done) =>
        \A i \in 1..Len(result.log) :
            result.log[i].ev = "lambda" =>
                \E s \in SeqToSet(AllTokens(
                            parseTemplate(result.log[i].src, result.log[i].tags).tokens)) :
                    /\ s.type = "#"
                    /\ s.start = result.log[i].tok
                    /\ result.log[i].text =
                          Slice(result.log[i].src, s.end, s.closeStart)


-----------------------------------------------------------------------------
(* Nested scopes: renders of templates whose sections nest, over views     *)
(* whose section values are sequences of objects, objects and booleans.    *)

Str_t == <<"t">>
Str_r == <<"r">>
Str_b == <<"b">>

\* The longest template of the scope calls, in pieces.
MaxScopePieces == 2

\* A section around a variable, a variable, a section around a section and a
\* variable, an inverted section, a partial, a section around a partial and a
\* variable.
ScopePieces ==
    { <<"{", "{", "#", "s", "}", "}", "{", "{", "x", "}", "}", "{", "{", "/", "s", "}", "}">>,
      <<"{", "{", "x", "}", "}">>,
      <<"{", "{", "#", "s", "}", "}", "{", "{", "#", "t", "}", "}", "{", "{", "x", "}", "}",
        "{", "{", "/", "t", "}", "}", "{", "{", "x", "}", "}", "{", "{", "/", "s", "}", "}">>,
      <<"{", "{", "^", "t", "}", "}", "{", "{", "x", "}", "}", "{", "{", "/", "t", "}", "}">>,
      <<"{", "{", ">", "p", "}", "}">>,
      <<"{", "{", "#", "s", "}", "}", "{", "{", ">", "p", "}", "}", "{", "{", "x", "}", "}",
        "{", "{", "/", "s", "}", "}">> }

ScopeTemplates == PieceTemplates(ScopePieces, MaxScopePieces)

\* The object {x: c}.
XIs(c) == ObjV(Str_x :> StringV(c))

\* The sequence [{t: [{x: "b"}, {}]}, {x: "a"}].
NestedElements ==
    ArrV(<< ObjV(Str_t :> ArrV(<<XIs(Str_b), ObjV(<<>>)>>)), XIs(Str_a) >>)

\* The values of s and t in the views; x is "r" in each of them.
ScopeBindings ==
    { Str_s :> ArrV(<<XIs(Str_a), ObjV(<<>>)>>),
      Str_s :> ObjV((Str_x :> StringV(Str_a)) @@ (Str_t :> XIs(Str_b))),
      Str_s :> NestedElements,
      (Str_s :> BoolV(TRUE)) @@ (Str_t :> XIs(Str_b)),
      Str_s :> ArrV(<<>>),
      Str_t :> ArrV(<<ObjV(<<>>), XIs(Str_b)>>) }

ScopeViews == {ObjV(b @@ (Str_x :> StringV(Str_r))) : b \in ScopeBindings}

\* No partials, and p with a section and a variable after it.
ScopePartials ==
    { UndefinedV,
      ObjV(Str_p :> <<"{", "{", "#", "t", "}", "}", "{", "{", "x", "}", "}",
                      "{", "{", "/", "t", "}", "}", "{", "{", "x", "}", "}">>) }

ScopeCalls ==
    {Call("render", t, UndefinedV, v, p, NoConfig, UndefinedV, FALSE) :
        t \in ScopeTemplates, v \in ScopeViews, p \in ScopePartials}

InitScope ==
    /\ templateCache = EmptyCache
    /\ call \in ScopeCalls
    /\ result = NoResult

SpecScope == InitScope /\ [][RenderCall]_vars


-----------------------------------------------------------------------------
(* Scopes are nested and a section leaves the enclosing scope as it was    *)
(* (claim C11).                                                            *)

\* The renderings of the children of sections, in the order they were made:
\* the section, the context and the depth of partials.
ScopesEntered ==
    LET Seen == SelectSeq(result.log, LAMBDA e : e.ev = "children")
    IN  [i \in 1..Len(Seen) |->
            [tok |-> Seen[i].tok, ctx |-> Seen[i].ctx, level |-> Seen[i].level]]

RECURSIVE ScopesOf(_, _, _)
RECURSIVE TokenScopes(_, _, _)

\* The scopes a token sequence is to enter when every one of its tokens is
\* rendered against the same context.
ScopesOf(tokens, context, lvl) ==
    Concat([i \in 1..Len(tokens) |-> TokenScopes(tokens[i], context, lvl)])

\* The scopes one token is to enter: a section over a sequence one child of
\* context per element, in element order; a section over an object one child;
\* a section over true, and an inverted section over a falsy value or an empty
\* sequence, context itself; a partial those of its template, context kept.
TokenScopes(token, context, lvl) ==
    LET Entered(against) ==
            <<[tok |-> token.start, ctx |-> against, level |-> lvl]>>
            \o ScopesOf(token.children, against, lvl)
        OfSection(value) ==
            IF FalsyOrEmpty(value) THEN <<>>
            ELSE IF isArray(value)
            THEN Concat([j \in 1..Len(value.v) |-> Entered(context \o <<value.v[j]>>)])
            ELSE IF value.t = "boolean" THEN Entered(context)
            ELSE Entered(context \o <<value>>)
        OfInverted(value) ==
            IF FalsyOrEmpty(value) THEN Entered(context) ELSE <<>>
        OfPartial(value) ==
            IF IsNullish(value) THEN <<>>
            ELSE ScopesOf(parseTemplate(value.v, getConfigTags(call.config)).tokens,
                          context, lvl + 1)
    IN  CASE token.type = "#" -> OfSection(lookup(context, token.value))
          [] token.type = "^" -> OfInverted(lookup(context, token.value))
          [] token.type = ">" ->
                IF call.partials.t = "undefined" THEN <<>>
                ELSE OfPartial(PartialValue(call.partials, token.value))
          [] OTHER -> <<>>

\* What a rendering of tokens against context gives on a new Writer.
OutputOf(tokens, context) ==
    renderTokens(tokens, context, call.partials, StringV(call.template),
                 call.config, [cache |-> EmptyCache, log |-> <<>>], 0).out

\* The output of one top-level token rendered by itself against the context
\* of the view; for a section over a sequence, the outputs of its children
\* for each element as a child of that context, in element order.
FramedOutput(token) ==
    LET OfElements(value) ==
            Concat([j \in 1..Len(value.v) |->
                       OutputOf(token.children, RootContext \o <<value.v[j]>>)])
        Of(value) ==
            IF token.type = "#" /\ isArray(value) THEN OfElements(value)
            ELSE OutputOf(<<token>>, RootContext)
    IN  Of(IF token.type = "#" THEN ValueOf(token) ELSE UndefinedV)

\* C11: the scopes a render enters are those of a token tree in which every
\* token of a sequence, also one that follows a section, an inverted section
\* or a partial, is rendered against the context of the tokens before it, and
\* every element of a sequence value is a new child of the context of its
\* section; the output is the outputs of the tokens, and of the elements in
\* element order, put together.
C11_ScopesNested ==
    LET Holds(tokens) ==
            /\ ScopesEntered = ScopesOf(tokens, RootContext, 0)
            /\ result.out = Concat([i \in 1..Len(tokens) |-> FramedOutput(tokens[i])])
    IN  (RenderDone /\ result.err = NoError) => Holds(TopTokens)

\* {{#s}}{{#t}}{{x}}{{/t}}{{x}}{{/s}}{{x}} over s = [{t: [{x: "b"}, {}]},
\* {x: "a"}] and x = "r": four scopes are entered, the last of them the second
\* element of s as a child of the view, and the output is brrar.
C11_Witness ==
    /\ RenderDone /\ result.err = NoError
    /\ call.view = ObjV((Str_s :> NestedElements) @@ (Str_x :> StringV(Str_r)))
    /\ Len(ScopesEntered) = 4
    /\ ScopesEntered[3].ctx = <<call.view, NestedElements.v[1], ObjV(<<>>)>>
    /\ ScopesEntered[4].ctx = <<call.view, XIs(Str_a)>>
    /\ result.out = <<"b", "r", "r", "a", "r">>

=============================================================================
